---- MODULE Spec2Model ----
(***************************************************************************)
(* Vegetation_Segmentation/utils.py as a state machine.                    *)
(*                                                                         *)
(* Floating-point values are exact rationals n/d (d > 0, lowest terms)     *)
(* extended with the IEEE-754 specials nan, +inf and -inf.  Every float    *)
(* the code computes here is one division of two small integers or a       *)
(* decimal literal, so correctly rounded doubles order exactly as the      *)
(* rationals they round.  Arrays are one-row rasters: sequences of cells.  *)
(* The OpenCV calls are kept as terms (function, source, mode, kernel), so *)
(* the order and the arguments of the calls are what the model records.    *)
(***************************************************************************)
EXTENDS Integers, Sequences, FiniteSets, TLC

----------------------------------------------------------------------------
(* Bounds of the model *)

\* largest sample of a band in the arrays handed to get_vegetation_index
MaxPix == 1
\* longest band array handed directly to get_vegetation_index, and longest
\* mask handed directly to morphological_operations and smoothing
MaxLen == 2
\* longest index array handed directly to threshold
MaxIndexLen == 3
\* the ground sample distances handed directly to get_kernel_size reach from
\* -MaxGsdCm to MaxGsdCm hundredths of a metre
MaxGsdCm == 300
\* how far below 0 and above 23 the zoom levels tried reach
ZoomMargin == 2

----------------------------------------------------------------------------
(* Floats *)

RECURSIVE GCD(_, _)
GCD(a, b) == IF b = 0 THEN a ELSE GCD(b, a % b)

Abs(x) == IF x < 0 THEN -x ELSE x

\* the finite float n/d, d # 0, in lowest terms with a positive denominator
Fin(n, d) ==
    LET g == GCD(Abs(n), Abs(d))
        s == IF d < 0 THEN -1 ELSE 1
    IN  [k |-> "fin", n |-> (s * n) \div g, d |-> (s * d) \div g]

NaN    == [k |-> "nan", n |-> 0, d |-> 1]
PosInf == [k |-> "inf", n |-> 1, d |-> 1]
NegInf == [k |-> "inf", n |-> -1, d |-> 1]
\* Python's None where a float is expected
NoneV  == [k |-> "None", n |-> 0, d |-> 1]

One == Fin(1, 1)

\* ndarray.astype(float) of one unsigned sample
AsFloat(i) == Fin(i, 1)

\* a + b, a - b and c * a of finite floats
FAdd(a, b) == Fin(a.n * b.d + b.n * a.d, a.d * b.d)
FSub(a, b) == Fin(a.n * b.d - b.n * a.d, a.d * b.d)
FScale(c, a) == Fin(c * a.n, a.d)

\* a / b of finite floats, b # 0
FQuot(a, b) == Fin(a.n * b.d, a.d * b.n)

\* numpy's a / b of finite floats under divide="ignore", invalid="ignore":
\* x/0 is +inf or -inf by the sign of x, 0/0 is nan, nothing is raised
NpDivide(a, b) ==
    IF b.n = 0
    THEN IF a.n = 0 THEN NaN ELSE IF a.n > 0 THEN PosInf ELSE NegInf
    ELSE FQuot(a, b)

\* IEEE comparisons: every comparison with nan is false
FLe(a, b) ==
    /\ a.k # "nan"
    /\ b.k # "nan"
    /\ CASE a.k = "inf" /\ b.k = "inf" -> a.n <= b.n
         [] a.k = "inf" -> a.n < 0
         [] b.k = "inf" -> b.n > 0
         [] OTHER -> a.n * b.d <= b.n * a.d

FLt(a, b) ==
    /\ a.k # "nan"
    /\ b.k # "nan"
    /\ CASE a.k = "inf" /\ b.k = "inf" -> a.n < b.n
         [] a.k = "inf" -> a.n < 0
         [] b.k = "inf" -> b.n > 0
         [] OTHER -> a.n * b.d < b.n * a.d

FGe(a, b) == FLe(b, a)
FGt(a, b) == FLt(b, a)

\* Python's int(x) of a finite float: truncation toward zero
PyInt(x) == IF x.n >= 0 THEN x.n \div x.d ELSE -((-x.n) \div x.d)

\* Python's list[i]: a negative i counts from the end of the list
PyListIndex(list, i) == IF i < 0 THEN list[Len(list) + i + 1] ELSE list[i + 1]

----------------------------------------------------------------------------
(* Exceptions *)

\* text is the literal part of the message, interp the values formatted into it
Raise(type, text, interp) == [type |-> type, text |-> text, interp |-> interp]

NoExc == Raise("none", "", <<>>)

Returned(v) == [status |-> "ok", value |-> v, exc |-> NoExc]
Raised(e)   == [status |-> "raise", value |-> <<>>, exc |-> e]

----------------------------------------------------------------------------
(* get_gsd_from_zoom *)

\* the table in hundredths of a metre per pixel
GsdCentimetres ==
    << 15641200, 7820600, 3910300, 1955150, 977580, 488780, 244390, 122190,
       61098, 30549, 15274, 7637, 3819, 1909, 955, 478, 239, 119, 60, 30,
       15, 7, 4, 2 >>

gsd_meters_per_pixel == [i \in 1..Len(GsdCentimetres) |-> Fin(GsdCentimetres[i], 100)]

ZoomGuardNoLowerBound(zoom_level) == zoom_level < Len(gsd_meters_per_pixel)

ZoomGuard(zoom_level) == 0 <= zoom_level /\ zoom_level < Len(gsd_meters_per_pixel)

get_gsd_from_zoom(zoom_level) ==
    IF ZoomGuard(zoom_level)
    THEN Returned(PyListIndex(gsd_meters_per_pixel, zoom_level))
    ELSE Raised(Raise("ValueError",
             "Invalid zoom level. Please provide a zoom level between 0 and 23.",
             <<>>))

----------------------------------------------------------------------------
(* get_kernel_size *)

diameter_of_object == 2

ForceOddWrongParity(kernel_size) ==
    IF kernel_size % 2 = 1 THEN kernel_size + 1 ELSE kernel_size

\* "if kernel_size % 2 == 0: kernel_size += 1"
ForceOdd(kernel_size) ==
    IF kernel_size % 2 = 0 THEN kernel_size + 1 ELSE kernel_size

\* gsd is a finite Python float; 2 / 0.0 raises ZeroDivisionError
get_kernel_size(gsd) ==
    IF gsd.n = 0
    THEN Raised(Raise("ZeroDivisionError", "float division by zero", <<>>))
    ELSE Returned(ForceOdd(PyInt(FQuot(AsFloat(diameter_of_object), gsd))))

----------------------------------------------------------------------------
(* threshold *)

DefaultMin == Fin(1, 10)
DefaultMax == Fin(1, 1)

InRangeExclusiveMax(v, min, max) == FGe(v, min) /\ FLt(v, max)

\* (index >= min) & (index <= max)
InRange(v, min, max) == FGe(v, min) /\ FLe(v, max)

\* (index < min) | (index > max)
OutOfRange(v, min, max) == FLt(v, min) \/ FGt(v, max)

\* np.full(index.shape, np.nan) with 1 stored where the boolean mask is true
threshold(index, min, max) ==
    << [i \in DOMAIN index |-> IF InRange(index[i], min, max) THEN One ELSE NaN],
       [i \in DOMAIN index |-> IF OutOfRange(index[i], min, max) THEN One ELSE NaN] >>

----------------------------------------------------------------------------
(* get_vegetation_index *)

\* numpy's settings before any np.seterr call
ErrDefault == [divide |-> "warn", invalid |-> "warn"]

\* np.seterr(divide="ignore", invalid="ignore"): the other settings are kept,
\* and nothing restores the old ones when the function returns
np_seterr(err) == [err EXCEPT !.divide = "ignore", !.invalid = "ignore"]

VARI(b, g, r) ==
    NpDivide(FSub(AsFloat(g), AsFloat(r)),
             FSub(FAdd(AsFloat(g), AsFloat(r)), AsFloat(b)))

GLI(b, g, r) ==
    NpDivide(FSub(FSub(FScale(2, AsFloat(g)), AsFloat(r)), AsFloat(b)),
             FAdd(FAdd(FScale(2, AsFloat(g)), AsFloat(r)), AsFloat(b)))

RGRI(b, g, r) == NpDivide(AsFloat(r), AsFloat(g))

\* the denominator of each index, as the code writes it
Denominator(index_type, b, g, r) ==
    CASE index_type = "VARI" -> g + r - b
      [] index_type = "GLI" -> 2 * g + r + b
      [] index_type = "RGRI" -> g

IndexTypes == {"VARI", "GLI", "RGRI"}

get_vegetation_index_fallback(blue, green, red, index_type) ==
    CASE index_type = "GLI" ->
           Returned([i \in DOMAIN blue |-> GLI(blue[i], green[i], red[i])])
      [] index_type = "RGRI" ->
           Returned([i \in DOMAIN blue |-> RGRI(blue[i], green[i], red[i])])
      [] OTHER ->
           Returned([i \in DOMAIN blue |-> VARI(blue[i], green[i], red[i])])

get_vegetation_index(blue, green, red, index_type) ==
    CASE index_type = "VARI" ->
           Returned([i \in DOMAIN blue |-> VARI(blue[i], green[i], red[i])])
      [] index_type = "GLI" ->
           Returned([i \in DOMAIN blue |-> GLI(blue[i], green[i], red[i])])
      [] index_type = "RGRI" ->
           Returned([i \in DOMAIN blue |-> RGRI(blue[i], green[i], red[i])])
      [] OTHER ->
           Raised(Raise("ValueError", "Unknown index type: ", <<index_type>>))

----------------------------------------------------------------------------
(* morphological_operations and smoothing: the OpenCV calls as terms *)

\* np.ones((kernel_size, kernel_size), np.uint8)
Ones(kernel_size) == <<"ones", kernel_size, kernel_size, "uint8">>

MorphologyEx(src, op, kernel) == <<"morphologyEx", src, op, kernel>>

GaussianBlur(src, ksize, sigma) == <<"GaussianBlur", src, ksize, sigma>>

BlurSigma == 1

smoothing(mask, kernel_size) ==
    GaussianBlur(mask, <<kernel_size, kernel_size>>, BlurSigma)

morphological_operations_close_first(mask, kernel_size) ==
    MorphologyEx(MorphologyEx(mask, "MORPH_CLOSE", Ones(kernel_size)),
                 "MORPH_OPEN", Ones(kernel_size))

morphological_operations(mask, kernel_size) ==
    LET opening_kernel == Ones(kernel_size)
        closing_kernel == Ones(kernel_size)
        opening == MorphologyEx(mask, "MORPH_OPEN", opening_kernel)
        closing == MorphologyEx(opening, "MORPH_CLOSE", closing_kernel)
    IN  closing

----------------------------------------------------------------------------
(* get_bands: the rasters the band reader can open, cells as (blue, green, red) *)

Files ==
    [ field |-> [blue  |-> <<0, 100, 0>>,
                 green |-> <<150, 200, 105>>,
                 red   |-> <<50, 0, 95>>],
      grey  |-> [blue  |-> <<100, 0, 150>>,
                 green |-> <<100, 0, 100>>,
                 red   |-> <<100, 50, 50>>],
      wood  |-> [blue  |-> <<0, 0, 0>>,
                 green |-> <<200, 60, 40>>,
                 red   |-> <<0, 40, 60>>] ]

get_bands(image_path) == Files[image_path]

NoBands == [blue |-> <<>>, green |-> <<>>, red |-> <<>>]

----------------------------------------------------------------------------
(* Inputs tried *)

Arrays(S, longest) == UNION {[1..n -> S] : n \in 1..longest}

ZoomLevels == (0 - ZoomMargin)..(Len(GsdCentimetres) - 1 + ZoomMargin)

GsdValues ==
    {Fin(c, 100) : c \in (0 - MaxGsdCm)..MaxGsdCm}
        \cup {gsd_meters_per_pixel[i] : i \in DOMAIN gsd_meters_per_pixel}

IndexArgs == IndexTypes \cup {"NDVI"}

IndexValues ==
    {NaN, PosInf, NegInf, Fin(1, 20), Fin(1, 10), Fin(1, 2), Fin(1, 1), Fin(3, 2)}

ThresholdMins == {Fin(1, 10), Fin(1, 2)}
ThresholdMaxs == {Fin(1, 2), Fin(1, 1)}

MaskValues == {One, NaN}

KernelSizes == {1, 3}

----------------------------------------------------------------------------
(* State *)

VARIABLES
    pc,                \* where process_image stands; "idle" outside a call
    args,              \* the arguments of the running process_image call
    index_min,         \* process_image's locals
    vegetation_index,
    bands,
    gsd,
    kernel_size,
    veg_index,
    vegetation_mask,
    filtered_mask,
    result,            \* what process_image returned or raised
    log,               \* the calls process_image has made so far, in order
    np_err,            \* numpy's error-handling settings (np.seterr)
    call               \* the last direct call of a core function and its outcome

locals == <<index_min, vegetation_index, bands, gsd, kernel_size, veg_index,
            vegetation_mask, filtered_mask>>

vars == <<pc, args, locals, result, log, np_err, call>>

NoArgs ==
    [image_path |-> "", zoom_level |-> 0, index_min |-> NoneV,
     index_max |-> NoneV, vegetation_index |-> "None"]

NoCall == [fn |-> "none", args |-> <<>>, out |-> Returned(<<>>)]

NoResult == [status |-> "none", value |-> <<>>, exc |-> NoExc]

ClearLocals ==
    /\ index_min' = NoneV
    /\ vegetation_index' = "None"
    /\ bands' = NoBands
    /\ gsd' = NoneV
    /\ kernel_size' = 0
    /\ veg_index' = <<>>
    /\ vegetation_mask' = <<>>
    /\ filtered_mask' = <<>>

Init ==
    /\ pc = "idle"
    /\ args = NoArgs
    /\ index_min = NoneV
    /\ vegetation_index = "None"
    /\ bands = NoBands
    /\ gsd = NoneV
    /\ kernel_size = 0
    /\ veg_index = <<>>
    /\ vegetation_mask = <<>>
    /\ filtered_mask = <<>>
    /\ result = NoResult
    /\ log = <<>>
    /\ np_err = ErrDefault
    /\ call = NoCall

----------------------------------------------------------------------------
(* Direct calls of the core functions *)

Direct(fn, a, out) ==
    /\ call' = [fn |-> fn, args |-> a, out |-> out]
    /\ pc' = "called"
    /\ UNCHANGED <<args, locals, result, log>>

CallGetGsdFromZoom ==
    /\ pc = "idle"
    /\ \E z \in ZoomLevels :
        /\ Direct("get_gsd_from_zoom", <<z>>, get_gsd_from_zoom(z))
        /\ UNCHANGED np_err

CallGetKernelSize ==
    /\ pc = "idle"
    /\ \E g \in GsdValues :
        /\ Direct("get_kernel_size", <<g>>, get_kernel_size(g))
        /\ UNCHANGED np_err

CallThreshold ==
    /\ pc = "idle"
    /\ \E index \in Arrays(IndexValues, MaxIndexLen),
          min \in ThresholdMins, max \in ThresholdMaxs :
        /\ Direct("threshold", <<index, min, max>>, Returned(threshold(index, min, max)))
        /\ UNCHANGED np_err

\* np.seterr is the first statement: it runs whatever index_type is
CallGetVegetationIndex ==
    /\ pc = "idle"
    /\ \E S \in {1..n : n \in 1..MaxLen} :
        \E blue \in [S -> 0..MaxPix], green \in [S -> 0..MaxPix],
           red \in [S -> 0..MaxPix], index_type \in IndexArgs :
            /\ Direct("get_vegetation_index", <<blue, green, red, index_type>>,
                      get_vegetation_index(blue, green, red, index_type))
            /\ np_err' = np_seterr(np_err)

CallMorphologicalOperations ==
    /\ pc = "idle"
    /\ \E mask \in Arrays(MaskValues, MaxLen), k \in KernelSizes :
        /\ Direct("morphological_operations", <<mask, k>>,
                  Returned(morphological_operations(mask, k)))
        /\ UNCHANGED np_err

CallSmoothing ==
    /\ pc = "idle"
    /\ \E mask \in Arrays(MaskValues, MaxLen), k \in KernelSizes :
        /\ Direct("smoothing", <<mask, k>>, Returned(smoothing(mask, k)))
        /\ UNCHANGED np_err

----------------------------------------------------------------------------
(* process_image, one action per statement *)

IndexMinArgs == {NoneV, Fin(1, 10), Fin(1, 2)}
IndexMaxArgs == {Fin(1, 2), Fin(2, 1)}
VegetationIndexArgs == IndexArgs \cup {"None"}

Stage(name) == log' = Append(log, name)

Fail(e) ==
    /\ result' = Raised(e)
    /\ pc' = "raised"

\* the call: a frame with the arguments bound and every local unset
ProcessImage ==
    /\ pc = "idle"
    /\ \E image_path \in DOMAIN Files, zoom_level \in ZoomLevels,
          imin \in IndexMinArgs, imax \in IndexMaxArgs,
          vi \in VegetationIndexArgs :
        /\ args' = [image_path |-> image_path, zoom_level |-> zoom_level,
                    index_min |-> imin, index_max |-> imax,
                    vegetation_index |-> vi]
        /\ index_min' = imin
        /\ vegetation_index' = vi
        /\ pc' = "defaults"
        /\ UNCHANGED <<bands, gsd, kernel_size, veg_index, vegetation_mask,
                       filtered_mask, result, log, np_err, call>>

DefaultIndexMinZero(v) == IF v = NoneV THEN Fin(0, 1) ELSE v

\* "if index_min is None: index_min = 0.1"
DefaultIndexMin(v) == IF v = NoneV THEN Fin(1, 10) ELSE v

\* "if vegetation_index is None: vegetation_index = 'VARI'"
DefaultVegetationIndex(v) == IF v = "None" THEN "VARI" ELSE v

SetDefaults ==
    /\ pc = "defaults"
    /\ index_min' = DefaultIndexMin(index_min)
    /\ vegetation_index' = DefaultVegetationIndex(vegetation_index)
    /\ pc' = "get_bands"
    /\ UNCHANGED <<args, bands, gsd, kernel_size, veg_index, vegetation_mask,
                   filtered_mask, result, log, np_err, call>>

GetBands ==
    /\ pc = "get_bands"
    /\ bands' = get_bands(args.image_path)
    /\ Stage("get_bands")
    /\ pc' = "get_gsd_from_zoom"
    /\ UNCHANGED <<args, index_min, vegetation_index, gsd, kernel_size,
                   veg_index, vegetation_mask, filtered_mask, result, np_err,
                   call>>

GetGsd ==
    /\ pc = "get_gsd_from_zoom"
    /\ Stage("get_gsd_from_zoom")
    /\ LET out == get_gsd_from_zoom(args.zoom_level)
       IN  IF out.status = "ok"
           THEN /\ gsd' = out.value
                /\ pc' = "get_kernel_size"
                /\ UNCHANGED result
           ELSE /\ Fail(out.exc)
                /\ UNCHANGED gsd
    /\ UNCHANGED <<args, index_min, vegetation_index, bands, kernel_size,
                   veg_index, vegetation_mask, filtered_mask, np_err, call>>

GetKernelSize ==
    /\ pc = "get_kernel_size"
    /\ Stage("get_kernel_size")
    /\ LET out == get_kernel_size(gsd)
       IN  IF out.status = "ok"
           THEN /\ kernel_size' = out.value
                /\ pc' = "get_vegetation_index"
                /\ UNCHANGED result
           ELSE /\ Fail(out.exc)
                /\ UNCHANGED kernel_size
    /\ UNCHANGED <<args, index_min, vegetation_index, bands, gsd, veg_index,
                   vegetation_mask, filtered_mask, np_err, call>>

GetVegetationIndex ==
    /\ pc = "get_vegetation_index"
    /\ Stage("get_vegetation_index")
    /\ np_err' = np_seterr(np_err)
    /\ LET out == get_vegetation_index(bands.blue, bands.green, bands.red,
                                       vegetation_index)
       IN  IF out.status = "ok"
           THEN /\ veg_index' = out.value
                /\ pc' = "threshold"
                /\ UNCHANGED result
           ELSE /\ Fail(out.exc)
                /\ UNCHANGED veg_index
    /\ UNCHANGED <<args, index_min, vegetation_index, bands, gsd, kernel_size,
                   vegetation_mask, filtered_mask, call>>

\* "vegetation_mask, _ = threshold(veg_index, index_min)": max is not passed
Threshold ==
    /\ pc = "threshold"
    /\ Stage("threshold")
    /\ vegetation_mask' = threshold(veg_index, index_min, DefaultMax)[1]
    /\ pc' = "morphological_operations"
    /\ UNCHANGED <<args, index_min, vegetation_index, bands, gsd, kernel_size,
                   veg_index, filtered_mask, result, np_err, call>>

MorphologicalOperations ==
    /\ pc = "morphological_operations"
    /\ log' = log \o <<"MORPH_OPEN", "MORPH_CLOSE">>
    /\ filtered_mask' = morphological_operations(vegetation_mask, kernel_size)
    /\ pc' = "smoothing"
    /\ UNCHANGED <<args, index_min, vegetation_index, bands, gsd, kernel_size,
                   veg_index, vegetation_mask, result, np_err, call>>

\* smoothing and "return smoothed_mask"
Smoothing ==
    /\ pc = "smoothing"
    /\ Stage("GaussianBlur")
    /\ result' = Returned(smoothing(filtered_mask, kernel_size))
    /\ pc' = "returned"
    /\ UNCHANGED <<args, locals, np_err, call>>

\* the call is over: its frame and its outcome are dropped, and all that is
\* left of it is what it did to the state outside the frame
Leave ==
    /\ pc \in {"called", "returned", "raised"}
    /\ pc' = "idle"
    /\ ClearLocals
    /\ args' = NoArgs
    /\ result' = NoResult
    /\ log' = <<>>
    /\ call' = NoCall
    /\ UNCHANGED np_err

Next ==
    \/ CallGetGsdFromZoom
    \/ CallGetKernelSize
    \/ CallThreshold
    \/ CallGetVegetationIndex
    \/ CallMorphologicalOperations
    \/ CallSmoothing
    \/ ProcessImage
    \/ SetDefaults
    \/ GetBands
    \/ GetGsd
    \/ GetKernelSize
    \/ GetVegetationIndex
    \/ Threshold
    \/ MorphologicalOperations
    \/ Smoothing
    \/ Leave

Spec == Init /\ [][Next]_vars

----------------------------------------------------------------------------
(* Claims *)

IsOdd(k) == k % 2 = 1

ZoomValid(z) == 0 <= z /\ z <= 23

\* C1: threshold(index, min, max) returns two masks shaped like index; a cell
\* of the vegetation mask is 1 exactly when min <= value <= max and nan
\* otherwise; a cell of the non-vegetation mask is 1 exactly when value < min
\* or value > max and nan otherwise; a nan cell of index is nan in both masks.
C1_ThresholdMasks ==
    call.fn = "threshold" =>
        LET index == call.args[1]
            min == call.args[2]
            max == call.args[3]
            veg == call.out.value[1]
            non == call.out.value[2]
        IN  /\ call.out.status = "ok"
            /\ DOMAIN veg = DOMAIN index
            /\ DOMAIN non = DOMAIN index
            /\ \A i \in DOMAIN index :
                /\ veg[i] = IF FLe(min, index[i]) /\ FLe(index[i], max)
                            THEN One ELSE NaN
                /\ non[i] = IF FLt(index[i], min) \/ FLt(max, index[i])
                            THEN One ELSE NaN
                /\ index[i] = NaN => veg[i] = NaN /\ non[i] = NaN

\* threshold([0.05, 0.5, 1.5], 0.1, 1.0) has returned ([nan, 1, nan], [1, nan, 1])
C1_Witness ==
    /\ call.fn = "threshold"
    /\ call.args = << <<Fin(1, 20), Fin(1, 2), Fin(3, 2)>>, Fin(1, 10), Fin(1, 1) >>
    /\ call.out = Returned(<< <<NaN, One, NaN>>, <<One, NaN, One>> >>)

\* C4: get_gsd_from_zoom(z) returns entry z of the 24-entry table (156412.0 at
\* level 0, 0.02 at level 23, strictly decreasing) when 0 <= z <= 23, and raises
\* ValueError, returning nothing, for any other z: 24, and every negative z.
C4_GsdLookup ==
    /\ Len(gsd_meters_per_pixel) = 24
    /\ gsd_meters_per_pixel[1] = Fin(156412, 1)
    /\ gsd_meters_per_pixel[24] = Fin(2, 100)
    /\ \A i \in 1..23 : FLt(gsd_meters_per_pixel[i + 1], gsd_meters_per_pixel[i])
    /\ call.fn = "get_gsd_from_zoom" =>
        LET z == call.args[1]
        IN  IF ZoomValid(z)
            THEN call.out = Returned(gsd_meters_per_pixel[z + 1])
            ELSE /\ call.out.status = "raise"
                 /\ call.out.exc.type = "ValueError"
                 /\ call.out.value = <<>>

\* get_gsd_from_zoom(-1) has raised ValueError
C4_Witness ==
    /\ call.fn = "get_gsd_from_zoom"
    /\ call.args = <<-1>>
    /\ call.out.status = "raise"
    /\ call.out.exc.type = "ValueError"

\* the kernel arguments of the three OpenCV calls behind a returned mask
BlurKsize(v) == v[3]
CloseKernel(v) == v[2][4]
OpenKernel(v) == v[2][2][4]

\* C5: for a finite gsd > 0, get_kernel_size(gsd) is t when t is odd and t + 1
\* when t is even, t being 2.0/gsd truncated toward zero, so it is odd and >= 1
\* (3 for 1.0, 1 for 3.0 and for 4.78); process_image hands that one size to
\* the opening, the closing and the Gaussian blur.
C5_KernelSize ==
    /\ (call.fn = "get_kernel_size" /\ call.args[1].n > 0) =>
        LET g == call.args[1]
            k == call.out.value
        IN  /\ call.out.status = "ok"
            /\ \E t \in 0..(2 * g.d) :
                /\ t * g.n <= 2 * g.d
                /\ 2 * g.d < (t + 1) * g.n
                /\ k = IF IsOdd(t) THEN t ELSE t + 1
            /\ IsOdd(k)
            /\ k >= 1
            /\ g = Fin(1, 1) => k = 3
            /\ g = Fin(3, 1) => k = 1
            /\ g = Fin(478, 100) => k = 1
    /\ pc = "returned" =>
        /\ IsOdd(kernel_size)
        /\ kernel_size >= 1
        /\ \E t \in 0..(2 * gsd.d) :
            /\ t * gsd.n <= 2 * gsd.d
            /\ 2 * gsd.d < (t + 1) * gsd.n
            /\ kernel_size = IF IsOdd(t) THEN t ELSE t + 1
        /\ OpenKernel(result.value) = Ones(kernel_size)
        /\ CloseKernel(result.value) = Ones(kernel_size)
        /\ BlurKsize(result.value) = <<kernel_size, kernel_size>>

\* get_kernel_size(1.0) has returned 3: the truncated diameter 2 is even
C5_Witness ==
    /\ call.fn = "get_kernel_size"
    /\ call.args = <<Fin(1, 1)>>
    /\ call.out = Returned(3)

\* C2: where the denominator of the index is zero, get_vegetation_index
\* (VARI, GLI or RGRI) returns nan for the cell and raises nothing, for 0/0 and
\* for x/0 with x # 0 alike, so that threshold leaves the cell out of both masks.
C2_ZeroDenominatorIsNoData ==
    (call.fn = "get_vegetation_index" /\ call.args[4] \in IndexTypes) =>
        LET blue == call.args[1]
            green == call.args[2]
            red == call.args[3]
        IN  /\ call.out.status = "ok"
            /\ \A i \in DOMAIN blue :
                Denominator(call.args[4], blue[i], green[i], red[i]) = 0 =>
                    /\ call.out.value[i] = NaN
                    /\ LET masks == threshold(<<call.out.value[i]>>, DefaultMin, DefaultMax)
                       IN  masks[1][1] = NaN /\ masks[2][1] = NaN

\* C3: after process_image has thresholded, a cell of the vegetation mask is 1
\* exactly when index_min <= index <= index_max, index_max being the caller's.
C3_IndexMaxIsUsed ==
    pc = "morphological_operations" =>
        \A i \in DOMAIN veg_index :
            vegetation_mask[i] = One <=>
                (FLe(index_min, veg_index[i]) /\ FLe(veg_index[i], args.index_max))

\* C6: for every gsd <= 0, get_kernel_size(gsd) fails with ValueError
\* (InvalidArgument): it returns no kernel size and raises no other error.
C6_NonPositiveGsdRejected ==
    (call.fn = "get_kernel_size" /\ call.args[1].n <= 0) =>
        /\ call.out.status = "raise"
        /\ call.out.exc.type = "ValueError"

\* the message of exception e names the value v
Names(e, v) == \E i \in DOMAIN e.interp : e.interp[i] = v

IndexKnown(vi) == vi \in IndexTypes \cup {"None"}

\* C7 as stated: when process_image is called with a zoom level outside
\* [0, 23] or an unknown index type, it raises an error whose message names
\* the invalid value passed, and returns no mask.
C7_MessageNamesInvalidValue ==
    /\ pc = "returned" => ZoomValid(args.zoom_level) /\ IndexKnown(args.vegetation_index)
    /\ pc = "raised" =>
        /\ result.status = "raise"
        /\ result.value = <<>>
        /\ IF ZoomValid(args.zoom_level)
           THEN Names(result.exc, args.vegetation_index)
           ELSE Names(result.exc, args.zoom_level)

\* C7 as amended: such a call raises ValueError and returns no mask; for an
\* unknown index type the message names the type passed; for an invalid zoom
\* level the message is the fixed text giving the range 0 to 23 and does not
\* name the level; a call with a valid level and a known type raises nothing.
C7_InvalidArgumentAborts ==
    /\ pc = "returned" => ZoomValid(args.zoom_level) /\ IndexKnown(args.vegetation_index)
    /\ pc = "raised" =>
        /\ result.status = "raise"
        /\ result.value = <<>>
        /\ result.exc.type = "ValueError"
        /\ ~ (ZoomValid(args.zoom_level) /\ IndexKnown(args.vegetation_index))
        /\ IF ZoomValid(args.zoom_level)
           THEN /\ result.exc.text = "Unknown index type: "
                /\ result.exc.interp = <<args.vegetation_index>>
           ELSE /\ result.exc.text =
                     "Invalid zoom level. Please provide a zoom level between 0 and 23."
                /\ result.exc.interp = <<>>

\* process_image has raised for zoom level -1 with the fixed message, which
\* names no value, and has returned no mask
C7_Witness ==
    /\ pc = "raised"
    /\ args.zoom_level = -1
    /\ result.exc.type = "ValueError"
    /\ result.exc.interp = <<>>
    /\ result.value = <<>>

\* C8: process_image with index_min = None returns what the same call with
\* index_min = 0.1 returns, with vegetation_index = None what the same call
\* with "VARI" returns, and uses a supplied index_min or vegetation_index
\* unchanged; what it returns is the smoothed vegetation mask alone.
C8_Defaults ==
    pc = "returned" =>
        LET min == IF args.index_min = NoneV THEN Fin(1, 10) ELSE args.index_min
            vi == IF args.vegetation_index = "None" THEN "VARI"
                  ELSE args.vegetation_index
            raster == Files[args.image_path]
            index == get_vegetation_index(raster.blue, raster.green, raster.red, vi).value
            veg == [i \in DOMAIN index |->
                       IF FLe(min, index[i]) /\ FLe(index[i], DefaultMax)
                       THEN One ELSE NaN]
            k == get_kernel_size(get_gsd_from_zoom(args.zoom_level).value).value
        IN  /\ index_min = min
            /\ vegetation_index = vi
            /\ result = Returned(smoothing(morphological_operations(veg, k), k))
            /\ result.value[1] = "GaussianBlur"

\* process_image has returned for a call that left out both index_min and
\* vegetation_index, with a cell of index 0.2: vegetation under the default
\* minimum 0.1
C8_Witness ==
    /\ pc = "returned"
    /\ args.index_min = NoneV
    /\ args.vegetation_index = "None"
    /\ \E i \in DOMAIN veg_index : veg_index[i] = Fin(1, 5) /\ vegetation_mask[i] = One

IsPrefix(s, t) == Len(s) <= Len(t) /\ \A i \in DOMAIN s : s[i] = t[i]

ClaimedOrder ==
    <<"get_gsd_from_zoom", "get_kernel_size", "get_bands", "get_vegetation_index",
      "threshold", "MORPH_OPEN", "MORPH_CLOSE", "GaussianBlur">>

CodeOrder ==
    <<"get_bands", "get_gsd_from_zoom", "get_kernel_size", "get_vegetation_index",
      "threshold", "MORPH_OPEN", "MORPH_CLOSE", "GaussianBlur">>

\* C9 as stated: the stages of process_image run in the order GSD, kernel size,
\* bands, index, threshold, opening, closing, blur, so a call with an invalid
\* zoom level fails before any band is read.
C9_GsdBeforeBands ==
    /\ IsPrefix(log, ClaimedOrder)
    /\ (pc = "raised" /\ ~ ZoomValid(args.zoom_level)) => log = <<"get_gsd_from_zoom">>

\* C9 as amended: the stages run in the order bands, GSD, kernel size, index,
\* threshold, opening, closing, blur; a call with an invalid zoom level fails
\* right after the bands were read, before any other stage; the blur is
\* applied to the closing of the opening of the thresholded mask.
C9_StageOrder ==
    /\ IsPrefix(log, CodeOrder)
    /\ pc = "returned" =>
        /\ log = CodeOrder
        /\ result.value =
             GaussianBlur(
               MorphologyEx(
                 MorphologyEx(vegetation_mask, "MORPH_OPEN", Ones(kernel_size)),
                 "MORPH_CLOSE", Ones(kernel_size)),
               <<kernel_size, kernel_size>>, 1)
    /\ (pc = "raised" /\ ~ ZoomValid(args.zoom_level)) =>
        log = <<"get_bands", "get_gsd_from_zoom">>
    /\ (pc = "raised" /\ ZoomValid(args.zoom_level)) =>
        log = <<"get_bands", "get_gsd_from_zoom", "get_kernel_size",
                "get_vegetation_index">>

\* process_image has failed on zoom level 24 with the bands already read
C9_Witness ==
    /\ pc = "raised"
    /\ args.zoom_level = 24
    /\ log = <<"get_bands", "get_gsd_from_zoom">>
    /\ bands = Files[args.image_path]

\* C10: no call of a core function changes state that outlives the call: the
\* numeric error-handling settings for divide and invalid stay as they were.
C10_NoStateOutlivesACall == [][np_err' = np_err]_vars

====
